---- MODULE Spec2Model ----
(***************************************************************************)
(* Reconciliation of Jira tickets against Trilium Task Manager tasks:      *)
(* the publish and ls commands of src/TaskManager/jira_sla.py and of its   *)
(* older variant src/bugSLA/bugSLA.py, with the calls that can raise.      *)
(*                                                                         *)
(* Strings whose characters matter (summaries, titles, note content) are   *)
(* sequences of one-token strings; a token is a character or a rendered    *)
(* field.  The Trilium server is the committed `store`; the session's      *)
(* pending changes live in `task` until flush() writes them to the store.  *)
(***************************************************************************)
EXTENDS Integers, Sequences, FiniteSets, TLC

VARIABLES
    variant,      \* which program runs: "jira_sla" or "bugSLA"
    store,        \* committed notes of the Trilium server, in creation order
    store0,       \* the store before the first run (never changes)
    pc,           \* position of the command being run
    dry_run,      \* State.dry_run of the current invocation
    tickets,      \* names of the tickets returned by the query, in order
    i,            \* index of the ticket of the current loop iteration
    candidates,   \* ids returned by the last trilium.search of the loop
    task,         \* the loop's `task`: [id, note], id = 0 for an unflushed Note
    table,        \* rows added to the rich Table by publish or ls
    runs,         \* invocations started so far (also the clock)
    outcomes,     \* this run: per ticket, the match count and the case taken
    lookups,      \* this run: number of per-ticket searches issued
    writes,       \* this run: flushes that wrote to the store
    snap,         \* the store as of the last completed loop iteration
    pre,          \* the store as the current iteration's search saw it
    start,        \* the store when the current invocation began
    prev,         \* the previous invocation: its tickets, flag and how it ended
    issues,       \* what the Jira searches returned when normalising them failed
    failure,      \* the call that raised and ended this invocation, or "none"
    opened,       \* the connections this invocation has constructed
    closed,       \* per connection, how often this invocation has closed it
    parser,       \* the parser trees of this run's merges: made and decomposed
    tool          \* the last task-manager or push command and how it ended

vars == <<variant, store, store0, pc, dry_run, tickets, i, candidates, task,
          table, runs, outcomes, lookups, writes, snap, pre, start, prev,
          issues, failure, opened, closed, parser, tool>>

----------------------------------------------------------------------------
(* Bounds *)

MaxRuns == 2
MaxTickets == 2
MaxPushes == 4

----------------------------------------------------------------------------
(* Text helpers *)

Min(a, b) == IF a < b THEN a ELSE b

\* s[:n]
Take(s, n) == SubSeq(s, 1, Min(n, Len(s)))

Ellipsis == <<".", ".", ".">>

\* n copies of the token c
Rep(c, n) == [k \in 1..n |-> c]

\* characters str.encode("ascii", "ignore") drops
NonAscii == {"\\u00e9", "\\u00ef", "\\u2603"}

IsAscii(c) == c \notin NonAscii

\* s.encode("ascii", "ignore")
AsciiIgnore(s) == SelectSeq(s, IsAscii)

\* sep.join(parts)
RECURSIVE Join(_, _)
Join(sep, parts) ==
    IF parts = <<>> THEN ""
    ELSE IF Len(parts) = 1 THEN parts[1]
    ELSE parts[1] \o sep \o Join(sep, Tail(parts))

\* the order of str on the labels in use
LabelRank(l) ==
    CASE l = "regression" -> 1
      [] l = "testing" -> 2
      [] l = "triaged" -> 3

RECURSIVE Insert(_, _)
Insert(x, s) ==
    IF s = <<>> THEN <<x>>
    ELSE IF LabelRank(x) <= LabelRank(Head(s)) THEN <<x>> \o s
    ELSE <<Head(s)>> \o Insert(x, Tail(s))

\* sorted(labels)
RECURSIVE Sorted(_)
Sorted(s) == IF s = <<>> THEN <<>> ELSE Insert(Head(s), Sorted(Tail(s)))

\* s[::-1]
Reverse(s) == [k \in 1..Len(s) |-> s[Len(s) + 1 - k]]

----------------------------------------------------------------------------
(* Dates *)

\* datetime.now() at the n-th invocation
Now(n) == [date |-> "2024-02-0" \o ToString(n), time |-> "09:0" \o ToString(n)]

\* dt.strftime("%Y-%m-%d"): the time of day is dropped
StrfDate(dt) == dt.date

\* dt.strftime("%Y-%m-%d %H:%M")
StrfMinute(dt) == dt.date \o " " \o dt.time

\* dt.isoformat()
IsoFormat(dt) == dt.date \o "T" \o dt.time

\* the instants of the model, earliest first
Timeline ==
    <<"2024-01-02T23:59", "2024-01-05T10:30", "2024-01-06T11:00",
      "2024-01-07T12:00", "2024-02-01T09:01", "2024-02-02T09:02",
      "2024-02-03T09:03", "2024-02-04T09:04">>

Instant(dt) == CHOOSE k \in 1..Len(Timeline) : Timeline[k] = IsoFormat(dt)

\* a < b on datetimes, which is how Ticket's sort_index compares
Before(a, b) == Instant(a) < Instant(b)

----------------------------------------------------------------------------
(* Tickets *)

None == "None"

Lorem == <<
    "L", "o", "r", "e", "m", " ", "i", "p", "s", "u", "m", " ", "d", "o", "l", "o",
    "r", " ", "s", "i", "t", " ", "a", "m", "e", "t", ",", " ", "c", "o", "n", "s",
    "e", "c", "t", "e", "t", "u", "r", " ", "a", "d", "i", "p", "i", "s", "c", "i",
    "n", "g", " ", "e", "l", "i", "t", ",", " ", "s", "e", "d", " ", "d", "o", " ",
    "e", "i", "u", "s", "m", "o", "d", " ", "t", "e", "m", "p", "o", "r", " ", "i",
    "n", "c", "i", "d", "i", "d", "u", "n", "t", " ", "u", "t", " ", "l", "a", "b",
    "o", "r", "e", " ", "e", "t", " ", "d", "o", "l", "o", "r", "e", " ", "m", "a",
    "g", "n", "a", " ", "a", "l", "i", "q", "u", "a", ".", " ", "U", "t", " ", "e",
    "n", "i", "m", " ", "a", "d", " ", "m", "i", "n", "i", "m", " ", "v", "e", "n",
    "i", "a", "m", ",", " ", "q", "u", "i", "s", " ", "n", "o", "s", "t", "r", "u",
    "d", " ", "e", "x", "e", "r", "c", "i", "t", "a", "t", "i", "o", "n", " ", "u",
    "l", "l", "a", "m", "c", "o", " ", "l", "a", "b", "o", "r", "i", "s", " ", "n",
    "i", "s", "i", " ", "u", "t", " ", "a", "l", "i", "q", "u", "i", "p", " ", "e",
    "x", " ", "e", "a", " ", "c", "o", "m", "m", "o", "d", "o", " ", "c", "o", "n",
    "s", "e", "q", "u", "a", "t", ".", " ", "D", "u", "i", "s", " ", "a", "u", "t",
    "e", " ", "i", "r", "u", "r", "e", " ", "d", "o", "l", "o", "r", " ", "i", "n",
    " ", "r", "e", "p", "r", "e", "h", "e", "n", "d", "e", "r", "i", "t", " ", "i",
    "n", " ", "v", "o", "l", "u", "p", "t", "a", "t", "e", " ", "v", "e", "l", "i",
    "t", " ", "e", "s", "s", "e", " ", "c", "i", "l", "l", "u", "m", " ", "d", "o",
    "l", "o", "r", "e", " ", "e", "u", " ", "f", "u", "g", "i", "a", "t", " ", "n",
    "u", "l", "l", "a", " ", "p", "a", "r", "i", "a", "t", "u", "r", ".", " ", "E",
    "x", "c", "e", "p", "t", "e", "u", "r", " ", "s", "i", "n", "t", " ", "o", "c",
    "c", "a", "e", "c", "a", "t", " ", "c", "u", "p", "i", "d", "a", "t", "a", "t",
    " ", "n", "o", "n", " ", "p", "r", "o", "i", "d", "e", "n", "t", ",", " ", "s",
    "u", "n", "t", " ", "i", "n", " ", "c", "u", "l", "p", "a", " ", "q", "u", "i",
    " ", "o", "f", "f", "i", "c", "i", "a", " ", "d", "e", "s", "e", "r", "u", "n",
    "t", " ", "m", "o", "l", "l", "i", "t", " ", "a", "n", "i", "m", " ", "i", "d",
    " ", "e", "s", "t", " ", "l", "a", "b", "o", "r", "u", "m", "." >>

\* the issues the Jira queries can return, by name
Issues == {"A", "B", "M"}

\* a timestamp as Jira sends it; the last one is not ISO 8601
Raw(date, time) == <<date, "T", time>>
BadRaw == <<"05/01/2024 10:30">>

IsIso(raw) == Len(raw) = 3 /\ raw[2] = "T"

\* datetime.fromisoformat(raw); it raises ValueError unless IsIso(raw), so
\* the second branch is never taken
FromIsoFormat(raw) ==
    IF IsIso(raw) THEN [date |-> raw[1], time |-> raw[3]]
    ELSE [date |-> "0001-01-01", time |-> "00:00"]

Issue(name) ==
    CASE name = "A" ->
           [key |-> "OCPBUGS-1", summary |-> Rep("x", 10), status |-> "New",
            priority |-> "Major", labels |-> <<"triaged", "testing">>,
            assignee |-> "dev",
            created |-> Raw("2024-01-05", "10:30"),
            updated |-> Raw("2024-01-06", "11:00"),
            url |-> "https://issues.redhat.com/browse/OCPBUGS-1"]
      [] name = "B" ->
           [key |-> "OCPBUGS-2", summary |-> Rep("z", 45) \o <<"\\u00e9">>,
            status |-> "New", priority |-> "Undefined", labels |-> <<>>,
            assignee |-> None,
            created |-> Raw("2024-01-02", "23:59"),
            updated |-> Raw("2024-01-02", "23:59"),
            url |-> "https://issues.redhat.com/browse/OCPBUGS-2"]
      [] name = "M" ->
           \* a record whose created field cannot be parsed
           [key |-> "OCPBUGS-3", summary |-> Rep("m", 10), status |-> "New",
            priority |-> "Major", labels |-> <<"triaged">>,
            assignee |-> "dev",
            created |-> BadRaw,
            updated |-> Raw("2024-01-07", "12:00"),
            url |-> "https://issues.redhat.com/browse/OCPBUGS-3"]

\* Ticket.__post_init__ of jira_sla.py
PostInitTitle(summary) ==
    IF Len(summary) > 45 THEN Take(summary, 42) \o Ellipsis ELSE summary

\* title=(summary[:45] + "..." * (len(summary) > 45)) of bugSLA.py
NewTicketTitle(summary) ==
    Take(summary, 45) \o (IF Len(summary) > 45 THEN Ellipsis ELSE <<>>)

TitleOf(v, summary) ==
    IF v = "jira_sla" THEN PostInitTitle(summary) ELSE NewTicketTitle(summary)

\* _new_ticket / new_ticket: a Ticket from a fetched issue
NewTicket(v, bug) ==
    [assignee |-> bug.assignee, created |-> FromIsoFormat(bug.created),
     key |-> bug.key,
     labels |-> bug.labels, priority |-> bug.priority, status |-> bug.status,
     summary |-> bug.summary, title |-> TitleOf(v, bug.summary),
     updated |-> FromIsoFormat(bug.updated), url |-> bug.url]

\* the tickets a dry run substitutes for the Jira query, at clock n
DryTicket(v, name, n) ==
    CASE name = "TEST-1" ->
           [assignee |-> "tester", created |-> Now(n), key |-> "TEST-1",
            labels |-> <<"triaged", "testing">>, priority |-> "Blocker",
            status |-> "Testing", summary |-> Lorem,
            title |-> TitleOf(v, Lorem), updated |-> Now(n),
            url |-> IF v = "jira_sla" THEN "https://issues.example.com/TEST-1"
                    ELSE "https://issues.example.com"]
      [] name = "TEST-2" ->
           [assignee |-> "developer", created |-> Now(n), key |-> "TEST-2",
            labels |-> <<"triaged">>, priority |-> "Critical",
            status |-> "In Progress", summary |-> Reverse(Lorem),
            title |-> TitleOf(v, Reverse(Lorem)), updated |-> Now(n),
            url |-> "https://issues.example.com/TEST-2"]
      [] name = "TEST-3" ->
           [assignee |-> "user", created |-> Now(n), key |-> "TEST-3",
            labels |-> <<"triaged">>, priority |-> "Normal",
            status |-> "Closed",
            summary |-> <<"T", "h", "i", "s", " ", "i", "s", " ", "a", " ", "t",
                          "e", "s", "t", " ", "t", "i", "c", "k", "e", "t", ".">>,
            title |-> TitleOf(v, <<"T", "h", "i", "s", " ", "i", "s", " ", "a",
                          " ", "t", "e", "s", "t", " ", "t", "i", "c", "k", "e",
                          "t", ".">>),
            updated |-> Now(n),
            url |-> "https://issues.example.com/TEST-3"]

DryNames == {"TEST-1", "TEST-2", "TEST-3"}

\* the Ticket a name of the current list stands for
Tk(v, name, n) ==
    IF name \in DryNames THEN DryTicket(v, name, n) ELSE NewTicket(v, Issue(name))

\* _query_jira / get_tickets with dry_run set
DryRunTickets(v) ==
    IF v = "jira_sla" THEN <<"TEST-1", "TEST-2", "TEST-3">> ELSE <<"TEST-1">>

\* what the two Jira searches, chained, can return
RECURSIVE SeqsUpTo(_, _)
SeqsUpTo(S, n) ==
    IF n = 0 THEN {<<>>}
    ELSE LET shorter == SeqsUpTo(S, n - 1)
         IN  shorter \cup {Append(s, x) : s \in shorter, x \in S}

FetchLists == SeqsUpTo(Issues, MaxTickets)

query_jira(v, dry, fetched) == IF dry THEN DryRunTickets(v) ELSE fetched

\* what Jira can return to an invocation: a dry run does not ask
Fetches(dry) == IF dry THEN {<<>>} ELSE FetchLists

\* a query that lets records through whatever their timestamps
ParsesAnything(fetched) == TRUE

\* tickets.append(_new_ticket(issue)) raises for none of the records
Parses(fetched) ==
    \A k \in 1..Len(fetched) :
        IsIso(Issue(fetched[k]).created) /\ IsIso(Issue(fetched[k]).updated)

----------------------------------------------------------------------------
(* Notes of the Trilium store *)

Range(s) == {s[k] : k \in 1..Len(s)}

AttrNames == {"task", "doneDate", "jiraKey", "jiraStatus", "jiraPriority",
              "jiraAssignee", "jiraUpdated", "jiraLabels", "iconClass",
              "location", "todoDate", "tag", "archived", "cssClass",
              "lastUploadedDate"}

NoAttrs == [a \in AttrNames |-> <<>>]

\* note[name] = value: the first label of that name is rewritten, or one is
\* created when the note owns none
SetLabel(note, name, value) ==
    [note EXCEPT !.attrs[name] =
        IF @ = <<>> THEN <<value>> ELSE [@ EXCEPT ![1] = value]]

\* note += [Label(name, value)]: one more label, whatever the note owns
AddLabel(note, name, value) ==
    [note EXCEPT !.attrs[name] = Append(@, value)]

\* note[name] read back: the first label of that name
GetLabel(note, name) ==
    IF note.attrs[name] = <<>> THEN None ELSE note.attrs[name][1]

\* an element of the document: tag, class and its items (text of the
\* element, or of each <li> of a list)
Elem(tag, class, items) == [tag |-> tag, class |-> class, items |-> items]

IsNotesList(e) == e.tag = "ul" /\ e.class = "notes-list"

\* #task is owned, or inherited from the task template
HasTask(note) == note.attrs["task"] # <<>> \/ note.template

UnderRoot(note) == \E p \in note.parents : p.note = "root"

\* a search that misses tasks whose shared attributes were never written
MatchesSettled(note, key) ==
    /\ HasTask(note)
    /\ note.attrs["doneDate"] = <<>>
    /\ key \in Range(note.attrs["jiraKey"])
    /\ UnderRoot(note)
    /\ note.attrs["jiraStatus"] # <<>>

\* a search that also returns tasks already done
MatchesIgnoresDone(note, key) ==
    /\ HasTask(note)
    /\ key \in Range(note.attrs["jiraKey"])
    /\ UnderRoot(note)

\* '#task #!doneDate #jiraKey="<key>"', ancestor_note=task_root
Matches(note, key) ==
    /\ HasTask(note)
    /\ note.attrs["doneDate"] = <<>>
    /\ key \in Range(note.attrs["jiraKey"])
    /\ UnderRoot(note)
    /\ note.attrs["archived"] = <<>>

\* a search that returns done tasks as well
SearchReopens(s, key) ==
    SelectSeq([k \in 1..Len(s) |-> k],
              LAMBDA k : /\ HasTask(s[k])
                         /\ key \in Range(s[k].attrs["jiraKey"])
                         /\ UnderRoot(s[k]))

\* a search that sees the notes as they were when the run began
SearchBeforeRun(s, key) ==
    SelectSeq([k \in 1..Len(start) |-> k], LAMBDA k : Matches(start[k], key))

\* trilium.search(...): the ids of the committed notes that match
Search(s, key) ==
    SelectSeq([k \in 1..Len(s) |-> k], LAMBDA k : Matches(s[k], key))

----------------------------------------------------------------------------
(* Stores the first run can find *)

OldContent ==
    << Elem("h2", "", << <<"OCPBUGS-1">> >>),
       Elem("ul", "notes-list", << <<>>, <<"c", "a", "f", "\\u00e9">> >>),
       Elem("p", "", << <<"n", "a", "\\u00ef", "v", "e">> >>) >>

BareContent ==
    << Elem("p", "", << <<"\\u2603", "o", "k">> >>),
       Elem("ul", "todo", << <<"a">>, <<"b">> >>) >>

OldTask(key, content) ==
    [title |-> <<key, ": ", "o", "l", "d">>,
     template |-> TRUE,
     content |-> content,
     parents |-> {[note |-> "root", prefix |-> ""]},
     attrs |-> [NoAttrs EXCEPT
                  !["jiraKey"] = <<key>>,
                  !["jiraStatus"] = <<"Stale">>,
                  !["jiraPriority"] = <<"Minor">>,
                  !["jiraAssignee"] = <<"nobody">>,
                  !["jiraUpdated"] = <<"2023-12-31">>,
                  !["jiraLabels"] = <<"triaged">>,
                  !["todoDate"] = <<"2023-12-01">>,
                  !["tag"] = <<"jira">>]]

Old1 == OldTask("OCPBUGS-1", OldContent)
Bare1 == OldTask("OCPBUGS-1", BareContent)
Done1 == [Old1 EXCEPT !.attrs["doneDate"] = <<"2024-01-01">>]
Away1 == [Old1 EXCEPT !.parents = {[note |-> "archive", prefix |-> ""]}]
Plain1 == [Old1 EXCEPT !.template = FALSE]

InitStores ==
    { <<>>, <<Old1>>, <<Bare1>>, <<Done1, Away1, Plain1>>, <<Old1, Bare1>> }

\* at most one match per key in use
Keys == {"OCPBUGS-1", "OCPBUGS-2", "OCPBUGS-3", "TEST-1", "TEST-2", "TEST-3"}

AtMostOne(s) == \A key \in Keys : Len(Search(s, key)) <= 1

----------------------------------------------------------------------------
(* publish: the pieces of one loop iteration *)

\* html_template.substitute(...): $status is passed and not used
Substitute(t, now) ==
    << Elem("h2", "", << <<t.url, t.key>> >>),
       Elem("h3", "", << <<"Summary">> >>),
       Elem("table", "",
            << t.summary,
               <<"Initial Priority:", t.priority>>,
               <<"Created:", IsoFormat(t.created)>>,
               <<"Jira Label(s):", Join(", ", t.labels)>>,
               <<"Mark:", IsoFormat(now)>> >>),
       Elem("h3", "", << <<"Notes">> >>),
       Elem("ul", "notes-list", << <<>> >>) >>

\* the due date of a new task
TodoDate(v, t, now) ==
    IF v = "jira_sla" THEN StrfDate(t.created) ELSE StrfDate(now)

\* a new task that is never given its jiraKey
NewNoteNoKey(v, t, now) ==
    [title |-> <<t.key, ": ">> \o t.title,
     template |-> TRUE,
     content |-> Substitute(t, now),
     parents |-> {[note |-> "root", prefix |-> ""]},
     attrs |-> [NoAttrs EXCEPT
                  !["iconClass"] = <<"bx bx-bug">>,
                  !["location"] = <<"work">>,
                  !["todoDate"] = <<TodoDate(v, t, now)>>,
                  !["tag"] = <<"jira">>]]

\* case 0: Note(...), its labels, task_root += task
NewNote(v, t, now) ==
    [title |-> <<t.key, ": ">> \o t.title,
     template |-> TRUE,
     content |-> Substitute(t, now),
     parents |-> {[note |-> "root", prefix |-> ""]},
     attrs |-> [NoAttrs EXCEPT
                  !["iconClass"] = <<"bx bx-bug">>,
                  !["jiraKey"] = <<t.key>>,
                  !["location"] = <<"work">>,
                  !["todoDate"] = <<TodoDate(v, t, now)>>,
                  !["tag"] = <<"jira">>]]

\* jira_sla.py flushes right after task_root += task; bugSLA.py does not
FlushesAfterCreate(v) == v = "jira_sla"

\* a new task that is not related to today's note
RelateNothing(note) == note

\* task ^= (today, "TODO")
RelateToday(note) ==
    [note EXCEPT !.parents = @ \cup {[note |-> "today", prefix |-> "TODO"]}]

\* str(content).encode("ascii", "ignore") as html.parser then sees it
Parse(content) ==
    [k \in 1..Len(content) |->
        [content[k] EXCEPT
            !.items = [m \in 1..Len(@) |-> AsciiIgnore(@[m])]]]

\* soup.find("ul", {"class": "notes-list"}): the first one, 0 for None
Find(soup) ==
    IF \E k \in 1..Len(soup) : IsNotesList(soup[k])
    THEN CHOOSE k \in 1..Len(soup) :
            /\ IsNotesList(soup[k])
            /\ \A m \in 1..(k - 1) : ~IsNotesList(soup[m])
    ELSE 0

\* the <li> elements the update appends
Markers(v, now) ==
    IF v = "jira_sla"
    THEN << <<StrfMinute(now), " Update from Jira">> >>
    ELSE << <<StrfMinute(now), " Update from Jira">>, <<>> >>

\* a merge that puts the new entries first
MergePrepends(v, content, now) ==
    LET soup == Parse(content)
        at == Find(soup)
    IN  IF at # 0
        THEN [soup EXCEPT ![at].items = Markers(v, now) \o @]
        ELSE Append(soup, Elem("ul", "notes-list", Markers(v, now)))

\* case 1: the content written back to the matched task
MergeContent(v, content, now) ==
    LET soup == Parse(content)
        at == Find(soup)
    IN  IF at # 0
        THEN [soup EXCEPT ![at].items = @ \o Markers(v, now)]
        ELSE Append(soup, Elem("ul", "notes-list", Markers(v, now)))

\* one match taken for none
CaseOfOffByOne(n) ==
    IF n <= 1 THEN "Create" ELSE "Conflict"

\* several matches taken for one
CaseOfLoose(n) == IF n = 0 THEN "Create" ELSE "Update"

\* the case of the match statement
CaseOf(n) == IF n = 0 THEN "Create" ELSE IF n = 1 THEN "Update" ELSE "Conflict"

Assignee(t) == IF t.assignee = None THEN "N/A" ELSE t.assignee

JiraLabels(t) == Join(":", Sorted(t.labels))

\* metadata that also brings the title up to date with the ticket
SetAttrsAndTitle(v, note, t) ==
    LET a == SetLabel(note, "jiraAssignee", Assignee(t))
        b == SetLabel(a, "jiraLabels", JiraLabels(t))
        c == SetLabel(b, "jiraPriority", t.priority)
        d == SetLabel(c, "jiraStatus", t.status)
        e == SetLabel(d, "jiraUpdated", StrfDate(t.updated))
    IN  [e EXCEPT !.title = <<t.key, ": ">> \o t.title]

\* "Update Task metadata whether new or existing"
SetAttrs(v, note, t) ==
    LET a == SetLabel(note, "jiraAssignee", Assignee(t))
        b == IF v = "jira_sla" THEN SetLabel(a, "jiraLabels", JiraLabels(t)) ELSE a
        c == SetLabel(b, "jiraPriority", t.priority)
        d == SetLabel(c, "jiraStatus", t.status)
        e == SetLabel(d, "jiraUpdated", StrfDate(t.updated))
    IN  IF v = "jira_sla" THEN e ELSE AddLabel(e, "jiraLabels", JiraLabels(t))

\* a flush that loses notes the server does not know yet
FlushDropsNew(s, tk) ==
    IF tk.id = 0 THEN s ELSE [s EXCEPT ![tk.id] = tk.note]

\* a flush that writes a new note over the last one the server holds
FlushOverwrites(s, tk) ==
    IF tk.id # 0 THEN [s EXCEPT ![tk.id] = tk.note]
    ELSE IF s = <<>> THEN <<tk.note>>
    ELSE [s EXCEPT ![Len(s)] = tk.note]

\* trilium.flush(): the pending task is written to the server
Flush(s, tk) ==
    IF tk.id = 0 THEN Append(s, tk.note) ELSE [s EXCEPT ![tk.id] = tk.note]

\* a flushed Note that still counts as new
FlushedIdStale(s, tk) == tk.id

\* the id the server gave the flushed task
FlushedId(s, tk) == IF tk.id = 0 THEN Len(s) + 1 ELSE tk.id

\* table.add_row(...) of jira_sla.py; bugSLA.py's publish has no table
Row(t) ==
    [key |-> t.key, priority |-> t.priority, status |-> t.status,
     title |-> t.title, labels |-> Join("\n", t.labels),
     assignee |-> t.assignee, created |-> StrfDate(t.created)]

\* the row ls adds for a ticket: jira_sla.py shows ticket.assignee as it
\* is, bugSLA.py shows ticket.assignee or "N/A"
LsRow(v, verbose, t) ==
    IF verbose
    THEN [key |-> t.key, priority |-> t.priority, status |-> t.status,
          title |-> t.title, labels |-> Join("\n", t.labels),
          assignee |-> IF v = "jira_sla" THEN t.assignee ELSE Assignee(t),
          created |-> StrfDate(t.created)]
    ELSE [key |-> t.key, priority |-> t.priority, status |-> t.status,
          title |-> t.title]

\* a table that shows the newest row first
AddRowNewestFirst(v, tbl, t) ==
    IF v = "jira_sla" THEN <<Row(t)>> \o tbl ELSE tbl

AddRow(v, tbl, t) == IF v = "jira_sla" THEN Append(tbl, Row(t)) ELSE tbl

----------------------------------------------------------------------------
(* The publish command *)

\* `task` before the first iteration binds it
NoTask ==
    [id |-> -1,
     note |-> [title |-> <<>>, template |-> FALSE, content |-> <<>>,
               parents |-> {}, attrs |-> NoAttrs]]

\* the ticket of the current iteration
Ticket == Tk(variant, tickets[i], runs)

\* main: the connections constructed by the time `step` raises
Connections == {"trilium", "jira"}

Acquired(step) ==
    IF step = "session" THEN {}
    ELSE IF step = "jira" THEN {"trilium"}
    ELSE Connections

\* registration that waits until both connections exist
RegisteredLate(acquired) == IF acquired = Connections THEN acquired ELSE {}

\* ctx.with_resource(...) follows each constructor at once
Registered(acquired) == acquired

\* the context closes what was registered with it, once each
Teardown(acquired) ==
    [r \in Connections |-> IF r \in Registered(acquired) THEN 1 ELSE 0]

NoneClosed == [r \in Connections |-> 0]

Terminal == {"idle", "done", "aborted", "failed", "listed", "tool"}

\* no parser tree yet in this invocation
NoSoup == [made |-> 0, decomposed |-> 0]

\* soup = BeautifulSoup(...)
MakeSoup(sp) == [sp EXCEPT !.made = @ + 1]

\* a merge that frees the tree only when nothing was raised
DecomposeOnSuccess(sp, raised) ==
    IF raised = "none" THEN [sp EXCEPT !.decomposed = @ + 1] ELSE sp

\* try: ... finally: soup.decompose(), whatever `raised` names
Decompose(sp, raised) == [sp EXCEPT !.decomposed = @ + 1]

\* no task-manager or push command has run
NoTool == [program |-> "none", command |-> "none", title |-> <<>>,
           dry |-> FALSE, confirm |-> FALSE, end |-> "none", error |-> <<>>,
           matched |-> -1, text |-> <<>>]

Init ==
    /\ variant \in {"jira_sla", "bugSLA"}
    /\ store \in InitStores
    /\ store0 = store
    /\ pc = "idle"
    /\ dry_run = FALSE
    /\ tickets = <<>>
    /\ i = 1
    /\ candidates = <<>>
    /\ task = NoTask
    /\ table = <<>>
    /\ runs = 0
    /\ outcomes = <<>>
    /\ lookups = 0
    /\ writes = 0
    /\ snap = store
    /\ pre = store
    /\ start = store
    /\ prev = [tickets |-> <<>>, dry |-> FALSE, end |-> "idle"]
    /\ issues = <<>>
    /\ failure = "none"
    /\ opened = {}
    /\ closed = NoneClosed
    /\ parser = NoSoup
    /\ tool = NoTool

\* the program is invoked once more
EnteredWithin(dry, most) ==
    /\ pc \in Terminal
    /\ runs < most
    /\ runs' = runs + 1
    /\ dry_run' = dry
    /\ i' = 1
    /\ candidates' = <<>>
    /\ task' = NoTask
    /\ outcomes' = <<>>
    /\ lookups' = 0
    /\ writes' = 0
    /\ snap' = store
    /\ pre' = store
    /\ start' = store
    /\ prev' = [tickets |-> tickets, dry |-> dry_run, end |-> pc]
    /\ parser' = NoSoup
    /\ UNCHANGED <<variant, store0>>

\* one of the programs run in turn with publish is invoked
Entered(dry) == EnteredWithin(dry, MaxRuns)

\* publish or ls is invoked: nothing is written before the loop
Invoke(dry) ==
    /\ Entered(dry)
    /\ tool' = NoTool
    /\ UNCHANGED store

\* main opens both connections; publish gets tickets = _query_jira(ctx) and
\* looks up the root, the template and today's note
StartRun(dry, fetched) ==
    /\ Invoke(dry)
    /\ dry \/ Parses(fetched)
    /\ tickets' = query_jira(variant, dry, fetched)
    /\ table' = <<>>
    /\ issues' = <<>>
    /\ failure' = "none"
    /\ opened' = Acquired("none")
    /\ closed' = NoneClosed
    /\ pc' = "loop"

\* the ls command: the tickets are fetched and printed as a table
Ls(dry, verbose, fetched) ==
    /\ Invoke(dry)
    /\ dry \/ Parses(fetched)
    /\ tickets' = query_jira(variant, dry, fetched)
    /\ table' = [j \in 1..Len(tickets') |->
                    LsRow(variant, verbose, Tk(variant, tickets'[j], runs'))]
    /\ issues' = <<>>
    /\ failure' = "none"
    /\ opened' = Acquired("none")
    /\ closed' = Teardown(Acquired("none"))
    /\ pc' = "listed"

\* the invocation ends before the loop because `step` raised
StartFails(dry, step, fetched) ==
    /\ Invoke(dry)
    /\ tickets' = <<>>
    /\ table' = <<>>
    /\ issues' = fetched
    /\ failure' = step
    /\ opened' = Acquired(step)
    /\ closed' = Teardown(Acquired(step))
    /\ pc' = "failed"

\* Session(trilium_url, trilium_token) raises
SessionFails(dry) == StartFails(dry, "session", <<>>)

\* Jira.JIRA(jira_url, token_auth=jira_token) raises
JiraFails(dry) == StartFails(dry, "jira", <<>>)

\* jira.search_issues or one of the three Trilium lookups before the loop
\* raises
QueryFails(dry) == StartFails(dry, "query", <<>>)

\* datetime.fromisoformat raises for one of the fetched records
Malformed(fetched) ==
    /\ ~Parses(fetched)
    /\ StartFails(FALSE, "malformed", fetched)

\* for ticket in tickets: candidates = trilium.search(...)
Lookup ==
    /\ pc = "loop"
    /\ i <= Len(tickets)
    /\ candidates' = Search(store, Ticket.key)
    /\ lookups' = lookups + 1
    /\ pre' = store
    /\ pc' = "match"
    /\ UNCHANGED <<parser, tool, variant, store, store0, dry_run, tickets, i, task, table,
                   runs, outcomes, writes, snap, start, prev, issues, failure,
                   opened, closed>>

\* the search of the loop raises
FailSearch ==
    /\ pc = "loop"
    /\ i <= Len(tickets)
    /\ failure' = "search"
    /\ closed' = Teardown(opened)
    /\ pc' = "failed"
    /\ UNCHANGED <<parser, tool, variant, store, store0, dry_run, tickets, i, candidates,
                   task, table, runs, outcomes, lookups, writes, snap, pre,
                   start, prev, issues, opened>>

\* case 0
Create ==
    /\ pc = "match"
    /\ CaseOf(Len(candidates)) = "Create"
    /\ LET note == NewNote(variant, Ticket, Now(runs))
       IN  IF FlushesAfterCreate(variant)
           THEN /\ store' = Flush(store, [id |-> 0, note |-> note])
                /\ task' = [id |-> FlushedId(store, [id |-> 0, note |-> note]),
                            note |-> RelateToday(note)]
                /\ writes' = writes + 1
           ELSE /\ task' = [id |-> 0, note |-> RelateToday(note)]
                /\ UNCHANGED <<store, writes>>
    /\ outcomes' = Append(outcomes, [count |-> Len(candidates), path |-> "Create"])
    /\ pc' = "attrs"
    /\ UNCHANGED <<parser, tool, variant, store0, dry_run, tickets, i, candidates, table,
                   runs, lookups, snap, pre, start, prev, issues, failure,
                   opened, closed>>

\* case 0, and the flush that follows task_root += task raises
FailCreateFlush ==
    /\ pc = "match"
    /\ CaseOf(Len(candidates)) = "Create"
    /\ FlushesAfterCreate(variant)
    /\ task' = [id |-> 0, note |-> NewNote(variant, Ticket, Now(runs))]
    /\ outcomes' = Append(outcomes, [count |-> Len(candidates), path |-> "Create"])
    /\ failure' = "create flush"
    /\ closed' = Teardown(opened)
    /\ pc' = "failed"
    /\ UNCHANGED <<parser, tool, variant, store, store0, dry_run, tickets, i, candidates,
                   table, runs, lookups, writes, snap, pre, start, prev,
                   issues, opened>>

\* case 1
Update ==
    /\ pc = "match"
    /\ CaseOf(Len(candidates)) = "Update"
    /\ LET id == candidates[1]
       IN  task' = [id |-> id,
                    note |-> [store[id] EXCEPT
                        !.content = MergeContent(variant, @, Now(runs))]]
    /\ outcomes' = Append(outcomes, [count |-> Len(candidates), path |-> "Update"])
    /\ parser' = Decompose(MakeSoup(parser), "none")
    /\ pc' = "attrs"
    /\ UNCHANGED <<tool, variant, store, store0, dry_run, tickets, i, candidates,
                   table, runs, lookups, writes, snap, pre, start, prev,
                   issues, failure, opened, closed>>

\* case 1, and reading or parsing the task's content raises: there is no
\* tree yet
FailParse ==
    /\ pc = "match"
    /\ CaseOf(Len(candidates)) = "Update"
    /\ task' = [id |-> candidates[1], note |-> store[candidates[1]]]
    /\ outcomes' = Append(outcomes, [count |-> Len(candidates), path |-> "Update"])
    /\ failure' = "parse"
    /\ closed' = Teardown(opened)
    /\ pc' = "failed"
    /\ UNCHANGED <<parser, tool, variant, store, store0, dry_run, tickets, i,
                   candidates, table, runs, lookups, writes, snap, pre, start,
                   prev, issues, opened>>

\* case 1, and a statement of the try block raises: the content is not
\* written to the task
FailMerge ==
    /\ pc = "match"
    /\ CaseOf(Len(candidates)) = "Update"
    /\ task' = [id |-> candidates[1], note |-> store[candidates[1]]]
    /\ outcomes' = Append(outcomes, [count |-> Len(candidates), path |-> "Update"])
    /\ parser' = Decompose(MakeSoup(parser), "merge")
    /\ failure' = "merge"
    /\ closed' = Teardown(opened)
    /\ pc' = "failed"
    /\ UNCHANGED <<tool, variant, store, store0, dry_run, tickets, i,
                   candidates, table, runs, lookups, writes, snap, pre, start,
                   prev, issues, opened>>

\* case _: typer.echo(...); raise typer.Abort()
Conflict ==
    /\ pc = "match"
    /\ CaseOf(Len(candidates)) = "Conflict"
    /\ outcomes' = Append(outcomes, [count |-> Len(candidates), path |-> "Conflict"])
    /\ closed' = Teardown(opened)
    /\ pc' = "aborted"
    /\ UNCHANGED <<parser, tool, variant, store, store0, dry_run, tickets, i, candidates,
                   task, table, runs, lookups, writes, snap, pre, start, prev,
                   issues, failure, opened>>

\* the shared tail of the iteration: metadata, trilium.flush(), table.add_row
Metadata ==
    /\ pc = "attrs"
    /\ LET done == [task EXCEPT !.note = SetAttrs(variant, @, Ticket)]
       IN  /\ store' = Flush(store, done)
           /\ task' = [done EXCEPT !.id = FlushedId(store, done)]
           /\ snap' = Flush(store, done)
    /\ writes' = writes + 1
    /\ table' = AddRow(variant, table, Ticket)
    /\ i' = i + 1
    /\ pc' = "loop"
    /\ UNCHANGED <<parser, tool, variant, store0, dry_run, tickets, candidates, runs,
                   outcomes, lookups, pre, start, prev, issues, failure,
                   opened, closed>>

\* the flush at the end of the iteration raises: what was pending is lost
FailFlush ==
    /\ pc = "attrs"
    /\ task' = [task EXCEPT !.note = SetAttrs(variant, @, Ticket)]
    /\ failure' = "flush"
    /\ closed' = Teardown(opened)
    /\ pc' = "failed"
    /\ UNCHANGED <<parser, tool, variant, store, store0, dry_run, tickets, i, candidates,
                   table, runs, outcomes, lookups, writes, snap, pre, start,
                   prev, issues, opened>>

\* the loop is over: the table is printed and the command exits
Finish ==
    /\ pc = "loop"
    /\ i > Len(tickets)
    /\ closed' = Teardown(opened)
    /\ pc' = "done"
    /\ UNCHANGED <<parser, tool, variant, store, store0, dry_run, tickets, i, candidates,
                   task, table, runs, outcomes, lookups, writes, snap, pre,
                   start, prev, issues, failure, opened>>

----------------------------------------------------------------------------
(* The task-manager commands of task.py and tm.py that name a task *)

\* a deleted note
Gone == NoTask.note

\* the titles the commands are given
ToolTitles == {Old1.title, <<"n", "o", "n", "e">>}

\* the search of each command: under the todo root only, archived notes too
Scope(program, command) ==
    [root |-> command = "update" \/ (program = "tm" /\ command = "done"),
     archived |-> command = "rm"]

\* session.search('#task note.title="<title>"', ...)
Titled(s, title, scope) ==
    SelectSeq([k \in 1..Len(s) |-> k],
              LAMBDA k : /\ HasTask(s[k])
                         /\ s[k].title = title
                         /\ scope.root => UnderRoot(s[k])
                         /\ scope.archived \/ s[k].attrs["archived"] = <<>>)

\* how each command ends when its search returns nothing
NotFound(program, command, title) ==
    IF program = "task"
    THEN [end |-> "error", error |-> <<"\"">> \o title \o <<"\" not found.">>]
    ELSE IF command = "update"
    THEN [end |-> "crash", error |-> <<"IndexError: list index out of range">>]
    ELSE [end |-> "abort", error |-> <<"Task '">> \o title \o <<"'not found">>]

\* what each command writes to the task it found
Apply(program, command, note, due, today) ==
    CASE command = "update" ->
           LET dated == IF due
                        THEN SetLabel(note, "todoDate",
                                IF program = "task" THEN "2024-03-01"
                                ELSE "03-01-2024")
                        ELSE note
           IN  [dated EXCEPT !.parents = @ \cup {[note |-> "root", prefix |-> ""]}]
      [] command = "rm" -> Gone
      [] command = "done" ->
           SetLabel(SetLabel(note, "doneDate", today), "cssClass", "done")
      [] command = "archive" -> SetLabel(note, "archived", "")

\* the end of one command on the store s: task.py looks at --force and
\* --dry-run before it searches, tm.py (but for update) after
Outcome(program, command, title, dry, confirm, s) ==
    LET found == Titled(s, title, Scope(program, command))
        unsearched == [end |-> "exit", error |-> <<>>, matched |-> -1, id |-> 0]
    IN  IF program = "task" /\ command = "rm" /\ ~confirm
        THEN [unsearched EXCEPT !.end = "abort"]
        ELSE IF dry /\ (program = "task" \/ command = "update")
        THEN unsearched
        ELSE IF found = <<>>
        THEN [end |-> NotFound(program, command, title).end,
              error |-> NotFound(program, command, title).error,
              matched |-> 0, id |-> 0]
        ELSE IF dry
        THEN [end |-> "exit", error |-> <<>>, matched |-> Len(found), id |-> 0]
        ELSE IF program = "tm" /\ command = "rm" /\ ~confirm
        THEN [end |-> "abort", error |-> <<>>, matched |-> Len(found), id |-> 0]
        ELSE [end |-> "ok", error |-> <<>>, matched |-> Len(found),
              id |-> found[1]]

\* one invocation of a command, from the open of the session to its close,
\* which commits what the command wrote
Run(program, command, title, dry, confirm, due) ==
    /\ Entered(dry)
    /\ LET out == Outcome(program, command, title, dry, confirm, store)
       IN  /\ tool' = [program |-> program, command |-> command,
                       title |-> title, dry |-> dry, confirm |-> confirm,
                       end |-> out.end, error |-> out.error,
                       matched |-> out.matched, text |-> <<>>]
           /\ store' = IF out.end = "ok"
                       THEN [store EXCEPT ![out.id] =
                               Apply(program, command, @, due, Now(runs').date)]
                       ELSE store
    /\ opened' = {"trilium"}
    /\ closed' = Teardown({"trilium"})
    /\ failure' = "none"
    /\ pc' = "tool"
    /\ UNCHANGED <<tickets, table, issues>>

\* task.py update TITLE [--due DATE]
TaskUpdate(title, dry, due) == Run("task", "update", title, dry, TRUE, due)

\* task.py delete | rm TITLE [--force]
TaskDelete(title, dry, force) == Run("task", "rm", title, dry, force, FALSE)

\* task.py done TITLE
TaskComplete(title, dry) == Run("task", "done", title, dry, TRUE, FALSE)

\* task.py archive TITLE
TaskArchive(title, dry) == Run("task", "archive", title, dry, TRUE, FALSE)

\* tm.py update TITLE [--due DATE]
TmUpdate(title, dry, due) == Run("tm", "update", title, dry, TRUE, due)

\* tm.py rm TITLE [--confirm]
TmRm(title, dry, confirm) == Run("tm", "rm", title, dry, confirm, FALSE)

\* tm.py done TITLE
TmDone(title, dry) == Run("tm", "done", title, dry, TRUE, FALSE)

\* tm.py archive TITLE
TmArchive(title, dry) == Run("tm", "archive", title, dry, TRUE, FALSE)

----------------------------------------------------------------------------
(* pushToNote: a file is uploaded to the note of a given title *)

\* what the pushed files hold
Texts == { << Elem("p", "", << <<"v", "1">> >>) >>,
           << Elem("p", "", << <<"v", "2">> >>) >> }

\* trilium.search(f'note.title="{title}"')
AnyTitled(s, title) ==
    SelectSeq([k \in 1..Len(s) |-> k],
              LAMBDA k : s[k].title = title /\ s[k].attrs["archived"] = <<>>)

\* an upload that creates its attribute every time
StampAppends(note, now) == AddLabel(note, "lastUploadedDate", now)

\* the first lastUploadedDate attribute is patched, or one is created
Stamp(note, now) ==
    [note EXCEPT !.attrs["lastUploadedDate"] =
        IF @ = <<>> THEN <<now>> ELSE [@ EXCEPT ![1] = now]]

\* match len(notes) / if len(response["results"]) ...: the end of a push
\* by the number of matches
PushEnd(title, n, ok) ==
    IF n = 0
    THEN [end |-> "abort", error |-> <<"Note '">> \o title \o <<"' not found">>]
    ELSE IF n > 1
    THEN [end |-> "abort",
          error |-> <<"More than 1 matching note '">> \o title \o <<"' found">>]
    ELSE IF ~ok
    THEN [end |-> "error", error |-> <<"Failed to update note ">> \o title]
    ELSE [end |-> "ok", error |-> <<>>]

\* the bookkeeping of one push, from the open of the connection to its close
Pushed(program, title, text, dry, found, out, note) ==
    /\ EnteredWithin(dry, MaxPushes)
    /\ tool' = [program |-> program, command |-> "push", title |-> title,
                dry |-> dry, confirm |-> TRUE, end |-> out.end,
                error |-> out.error,
                matched |-> IF dry THEN -1 ELSE Len(found), text |-> text]
    /\ store' = IF out.end = "ok" THEN [store EXCEPT ![found[1]] = note]
                ELSE store
    /\ opened' = IF dry THEN {} ELSE {"trilium"}
    /\ closed' = Teardown(IF dry THEN {} ELSE {"trilium"})
    /\ failure' = "none"
    /\ pc' = "tool"
    /\ UNCHANGED <<tickets, table, issues>>

\* fileNote/pushToNote.py FILE --title TITLE [--dry-run]
FilePush(title, text, dry) ==
    LET found == AnyTitled(store, title)
        out == IF dry THEN [end |-> "exit", error |-> <<>>]
               ELSE PushEnd(title, Len(found), TRUE)
        note == IF out.end = "ok"
                THEN SetLabel([store[found[1]] EXCEPT !.content = text],
                              "lastUploadedDate", IsoFormat(Now(runs + 1)))
                ELSE Gone
    IN  Pushed("fileNote", title, text, dry, found, out, note)

\* pushToNote/pushToNote.py FILE; `ok` is what update_note_content returns
EtapiPush(title, text, ok) ==
    LET found == AnyTitled(store, title)
        out == PushEnd(title, Len(found), ok)
        note == IF out.end = "ok"
                THEN Stamp([store[found[1]] EXCEPT !.content = text],
                           IsoFormat(Now(runs + 1)) \o "Z")
                ELSE Gone
    IN  Pushed("pushToNote", title, text, FALSE, found, out, note)

Next ==
    \/ \E dry \in BOOLEAN : \E fetched \in Fetches(dry) : StartRun(dry, fetched)
    \/ \E dry \in BOOLEAN, verbose \in BOOLEAN :
          \E fetched \in Fetches(dry) : Ls(dry, verbose, fetched)
    \/ \E dry \in BOOLEAN : SessionFails(dry)
    \/ \E dry \in BOOLEAN : JiraFails(dry)
    \/ \E dry \in BOOLEAN : QueryFails(dry)
    \/ \E fetched \in FetchLists : Malformed(fetched)
    \/ Lookup
    \/ FailSearch
    \/ Create
    \/ FailCreateFlush
    \/ Update
    \/ FailParse
    \/ FailMerge
    \/ Conflict
    \/ Metadata
    \/ FailFlush
    \/ Finish

Spec == Init /\ [][Next]_vars

\* jira_sla.py alone, the program whose publish builds the report table
InitJiraSla == Init /\ variant = "jira_sla"

SpecJiraSla == InitJiraSla /\ [][Next]_vars

\* publish and ls of jira_sla.py, and the task-manager commands between them
NextTasks ==
    \/ Next
    \/ \E title \in ToolTitles, dry \in BOOLEAN, due \in BOOLEAN :
          TaskUpdate(title, dry, due)
    \/ \E title \in ToolTitles, dry \in BOOLEAN, force \in BOOLEAN :
          TaskDelete(title, dry, force)
    \/ \E title \in ToolTitles, dry \in BOOLEAN : TaskComplete(title, dry)
    \/ \E title \in ToolTitles, dry \in BOOLEAN : TaskArchive(title, dry)
    \/ \E title \in ToolTitles, dry \in BOOLEAN, due \in BOOLEAN :
          TmUpdate(title, dry, due)
    \/ \E title \in ToolTitles, dry \in BOOLEAN, confirm \in BOOLEAN :
          TmRm(title, dry, confirm)
    \/ \E title \in ToolTitles, dry \in BOOLEAN : TmDone(title, dry)
    \/ \E title \in ToolTitles, dry \in BOOLEAN : TmArchive(title, dry)

SpecTasks == InitJiraSla /\ [][NextTasks]_vars

\* the two pushToNote programs, run any number of times in any order
NextPush ==
    \/ \E title \in ToolTitles, text \in Texts, dry \in BOOLEAN :
          FilePush(title, text, dry)
    \/ \E title \in ToolTitles, text \in Texts, ok \in BOOLEAN :
          EtapiPush(title, text, ok)

SpecPush == InitJiraSla /\ [][NextPush]_vars

----------------------------------------------------------------------------
(* Properties *)

Ended == pc \in {"done", "aborted"}

\* this invocation repeats the previous one: same tickets, same flag
Rerun ==
    /\ runs >= 2 /\ prev.tickets = tickets /\ prev.dry = dry_run
    /\ prev.end \in {"done", "aborted"}

KeyOf(name) == Tk(variant, name, runs).key

\* an iteration has run to its end; its ticket, outcome and task
IterDone == pc \in {"loop", "done"} /\ i > 1
LastTicket == Tk(variant, tickets[i - 1], runs)
LastOutcome == outcomes[i - 1]
UpdateDone == IterDone /\ LastOutcome.path = "Update"
CreateDone == IterDone /\ LastOutcome.path = "Create"

OnePerTicketAllUpdated ==
    /\ \A j \in 1..Len(tickets) : Len(Search(store, KeyOf(tickets[j]))) = 1
    /\ \A j \in 1..Len(outcomes) : outcomes[j].path = "Update"

\* C1 as stated: from any store, after publish has run twice in a row on the
\* same tickets every ticket key has exactly one open task under the root and
\* the second run only updated.
C1_IdempotentFromAnyStore == (Ended /\ Rerun) => OnePerTicketAllUpdated

\* C1 amended: from a store that holds at most one open task per key under
\* the root, a second publish in a row on the same tickets runs to its end,
\* takes the Update case for every ticket and leaves exactly one open task per
\* ticket key.
C1_IdempotentCreate ==
    (Ended /\ Rerun /\ AtMostOne(store0)) =>
        /\ pc = "done"
        /\ Len(outcomes) = Len(tickets)
        /\ OnePerTicketAllUpdated

C1_Witness ==
    /\ pc = "done" /\ Rerun /\ store0 = <<>> /\ ~dry_run
    /\ Len(tickets) = 2 /\ tickets[1] # tickets[2]
    /\ Len(store) = 2

\* C2: with --dry-run set, publish writes nothing to the store.
C2_DryRunPurity == dry_run => (writes = 0 /\ store = start)

\* C3: the case taken for a ticket is fixed by the number of matches: none
\* creates (one task more under the root), one updates (the match's content
\* is merged and written back, no task more), more aborts; each ticket gets
\* exactly one outcome.
C3_OutcomeByCount ==
    /\ \A j \in 1..Len(outcomes) :
          outcomes[j].path =
             IF outcomes[j].count = 0 THEN "Create"
             ELSE IF outcomes[j].count = 1 THEN "Update" ELSE "Conflict"
    /\ Len(outcomes) =
          IF pc \in {"attrs", "aborted"}
             \/ (pc = "failed" /\
                   failure \in {"create flush", "flush", "parse", "merge"})
          THEN i ELSE i - 1
    /\ CreateDone =>
          /\ Len(store) = Len(pre) + 1
          /\ SubSeq(store, 1, Len(pre)) = pre
          /\ task.id = Len(store)
          /\ Matches(store[task.id], LastTicket.key)
    /\ UpdateDone =>
          /\ Len(store) = Len(pre)
          /\ <<task.id>> = Search(pre, LastTicket.key)
          /\ store[task.id].content =
                MergeContent(variant, pre[task.id].content, Now(runs))
          /\ \A k \in 1..Len(store) : k # task.id => store[k] = pre[k]
    /\ IterDone => LastOutcome.path # "Conflict"

C3_Witness ==
    /\ pc = "done" /\ Len(outcomes) = 2
    /\ outcomes[1].path = "Create" /\ outcomes[2].path = "Update"

\* C4: when the search for ticket i returns more than one task the run
\* aborts there: the store is as that search saw it, and no search was
\* issued for a later ticket.
C4_AmbiguityAbort ==
    \A j \in 1..Len(outcomes) :
        outcomes[j].count > 1 =>
            /\ pc = "aborted"
            /\ j = Len(outcomes) /\ j = i
            /\ lookups = i
            /\ store = pre
            /\ Len(table) < i

C4_Witness ==
    /\ pc = "aborted" /\ i = 1 /\ Len(tickets) = 2 /\ Len(candidates) = 2

\* C5: an abort on a conflict rolls nothing back: the store is the one the
\* previous ticket's flush left, with every task created earlier in the run.
C5_NoRollback ==
    pc = "aborted" =>
        /\ store = snap
        /\ Len(store) = Len(start)
              + Cardinality({j \in 1..Len(outcomes) : outcomes[j].path = "Create"})
        /\ \A j \in 1..(i - 1) : Len(Search(store, KeyOf(tickets[j]))) >= 1

C5_Witness ==
    /\ pc = "aborted" /\ i = 2 /\ outcomes[1].path = "Create"
    /\ Len(store) = Len(start) + 1

\* C6: once a ticket's iteration has flushed, the task reads back the
\* ticket's status, priority, assignee, updated date and sorted, ':'-joined
\* labels.
C6_AttributeFreshness ==
    IterDone =>
        LET note == store[task.id]
            t == LastTicket
        IN  /\ GetLabel(note, "jiraStatus") = t.status
            /\ GetLabel(note, "jiraPriority") = t.priority
            /\ GetLabel(note, "jiraAssignee") =
                  (IF t.assignee = None THEN "N/A" ELSE t.assignee)
            /\ GetLabel(note, "jiraUpdated") = t.updated.date
            /\ GetLabel(note, "jiraLabels") = Join(":", Sorted(t.labels))

\* the elements outside the notes list, and the entries of the notes list
Others(content) ==
    LET at == Find(content)
    IN  SelectSeq([k \in 1..Len(content) |-> IF k = at THEN <<>> ELSE content[k]],
                  LAMBDA e : e # <<>>)

Entries(content) ==
    IF Find(content) = 0 THEN <<>> ELSE content[Find(content)].items

\* C7: an update leaves the elements outside the notes list as they were
\* (up to the characters the ASCII encoding drops), in the same order, and
\* the notes list gains exactly one entry.
C7_ContentPreservation ==
    UpdateDone =>
        LET old == Parse(pre[task.id].content)
            new == store[task.id].content
        IN  /\ Others(new) = Others(old)
            /\ Len(Entries(new)) = Len(Entries(old)) + 1

\* C8: an update of content without a notes list writes back the old content
\* (up to the characters the ASCII encoding drops) followed by one new notes
\* list that holds exactly one entry.
C8_AnnotationCreation ==
    (UpdateDone /\ Find(pre[task.id].content) = 0) =>
        LET old == Parse(pre[task.id].content)
            new == store[task.id].content
        IN  /\ Len(new) = Len(old) + 1
            /\ SubSeq(new, 1, Len(old)) = old
            /\ IsNotesList(new[Len(new)])
            /\ Len(new[Len(new)].items) = 1

\* C9: from a store with at most one open task per key under the root,
\* publish runs keep at most one per key in every committed store, and no
\* run reaches the conflict case.
C9_AtMostOneMatch ==
    AtMostOne(store0) =>
        /\ AtMostOne(store)
        /\ pc # "aborted"
        /\ \A j \in 1..Len(outcomes) : outcomes[j].path # "Conflict"

C9_Witness ==
    /\ AtMostOne(store0) /\ store0 # <<>> /\ runs = 2 /\ pc = "done"
    /\ Len(tickets) = 2 /\ tickets[1] = tickets[2]
    /\ Len(store) > Len(store0)

\* C10: a ticket's title is its summary when that has at most 45 characters,
\* else the first 42 characters and "..."; it never has more than 45.
C10_TitleTruncation ==
    \A j \in 1..Len(tickets) :
        LET t == Tk(variant, tickets[j], runs)
        IN  /\ t.title =
                  IF Len(t.summary) <= 45 THEN t.summary
                  ELSE SubSeq(t.summary, 1, 42) \o <<".", ".", ".">>
            /\ Len(t.title) <= 45

\* the Create case was taken for the current ticket and its note was placed
\* under the root without the call raising
Creating ==
    /\ pc \in {"attrs", "failed"}
    /\ failure \in {"none", "flush"}
    /\ Len(outcomes) = i
    /\ outcomes[i].path = "Create"

\* C11: once the Create case has placed the new item under the root, the
\* committed store holds it with its Jira key, before the today relation and
\* the shared attributes; a failure later in the iteration leaves it there.
C11_CreateCommitted ==
    Creating =>
        \E id \in 1..Len(store) :
            /\ GetLabel(store[id], "jiraKey") = Ticket.key
            /\ UnderRoot(store[id])
            /\ store[id].attrs["doneDate"] = <<>>
            /\ store[id].attrs["jiraStatus"] = <<>>
            /\ \A p \in store[id].parents : p.note # "today"

\* C12: while an invocation runs, both connections are open and none is
\* closed; once it has ended, by whatever exit, every connection it opened
\* has been closed exactly once and no other has been closed. When the Jira
\* client cannot be constructed the Trilium session is still closed.
C12_ResourceRelease ==
    /\ opened \subseteq Connections
    /\ pc \notin Terminal => opened = Connections /\ closed = NoneClosed
    /\ pc \in Terminal \ {"idle"} =>
          \A r \in Connections : closed[r] = IF r \in opened THEN 1 ELSE 0
    /\ (pc = "failed" /\ failure = "jira") =>
          opened = {"trilium"} /\ closed["trilium"] = 1
    /\ pc \in {"done", "aborted", "listed"} => opened = Connections

C12_Witness ==
    /\ pc = "failed" /\ failure = "jira"
    /\ closed["trilium"] = 1 /\ closed["jira"] = 0
    /\ prev.end = "aborted"

\* the ticket at position j of the current run
TicketAt(j) == Tk(variant, tickets[j], runs)

\* C13: tickets are processed in ascending order of created: once a ticket
\* has been looked up, every ticket of the run created before it has been
\* looked up, changed and flushed.
C13_ProcessingOrder ==
    \A j, k \in 1..Len(tickets) :
        (k <= lookups /\ Before(TicketAt(j).created, TicketAt(k).created))
            => j < i

OpenItems(s, key) ==
    {id \in 1..Len(s) :
        /\ s[id].attrs["task"] # <<>> \/ s[id].template
        /\ s[id].attrs["doneDate"] = <<>>
        /\ key \in Range(s[id].attrs["jiraKey"])
        /\ \E p \in s[id].parents : p.note = "root"}

\* the previous invocation was ended by a failing remote call of its loop,
\* and this one reconciles the same tickets
RerunAfterFailure ==
    /\ runs >= 2
    /\ prev.end = "failed"
    /\ prev.tickets # <<>>
    /\ prev.tickets = tickets
    /\ prev.dry = dry_run

\* a failed invocation has issued each remote call once: the failing search
\* or flush is not repeated and the store is what the last flush left
NoRetry ==
    pc = "failed" =>
        /\ failure = "search" => lookups = i - 1 /\ store = snap
        /\ failure = "create flush" => lookups = i /\ store = pre
        /\ failure = "flush" => lookups = i /\ Len(outcomes) = i

\* a run that repeats a failed one has no conflict and, once complete,
\* leaves one non-done tracked item per key
RerunSettles ==
    /\ pc # "aborted"
    /\ \A j \in 1..Len(outcomes) : outcomes[j].path # "Conflict"
    /\ pc = "done" =>
          \A j \in 1..Len(tickets) :
              Cardinality(OpenItems(store, KeyOf(tickets[j]))) = 1

C16_SingleValued ==
    IterDone =>
        LET note == store[task.id]
            t == LastTicket
        IN  /\ note.attrs["jiraStatus"] = <<t.status>>
            /\ note.attrs["jiraPriority"] = <<t.priority>>
            /\ note.attrs["jiraAssignee"] =
                  <<IF t.assignee = None THEN "N/A" ELSE t.assignee>>
            /\ note.attrs["jiraUpdated"] = <<t.updated.date>>
            /\ note.attrs["jiraLabels"] = <<Join(":", Sorted(t.labels))>>

ReportColumns ==
    {"key", "priority", "status", "title", "labels", "assignee", "created"}

\* C17: the report of jira_sla.py's publish holds one row per ticket whose
\* iteration has been flushed and none for any other, in processing order;
\* every row has the same seven columns in dry and live runs and shows the
\* ticket's fields, and the store holds the committed task of each row.
C17_ReportCommitted ==
    pc # "listed" =>
        /\ Len(table) = i - 1
        /\ writes >= Len(table)
        /\ \A j \in 1..Len(table) :
              LET t == TicketAt(j)
                  row == table[j]
              IN  /\ DOMAIN row = ReportColumns
                  /\ row.key = t.key
                  /\ row.priority = t.priority
                  /\ row.status = t.status
                  /\ row.title = t.title
                  /\ row.labels = Join("\n", t.labels)
                  /\ row.created = t.created.date
                  /\ \E id \in OpenItems(store, t.key) :
                        store[id].attrs["jiraStatus"] = <<t.status>>

C17_Witness ==
    /\ pc = "failed" /\ failure = "flush"
    /\ Len(tickets) = 2 /\ tickets[1] # tickets[2]
    /\ Len(table) = 1 /\ table[1].key = TicketAt(1).key
    /\ Len(outcomes) = 2 /\ ~dry_run

\* C18: a ticket without assignee shows "N/A" wherever the assignee is
\* rendered: in the jiraAssignee attribute publish writes, and in the
\* assignee column of the rows of ls and of publish's report.
C18_AbsentAssignee ==
    /\ (IterDone /\ LastTicket.assignee = None) =>
          store[task.id].attrs["jiraAssignee"] = <<"N/A">>
    /\ \A j \in 1..Len(table) :
          ("assignee" \in DOMAIN table[j] /\ TicketAt(j).assignee = None)
              => table[j].assignee = "N/A"

\* the fetched record at position k cannot be normalised
Unparsable(fetched, k) ==
    \/ Issue(fetched[k]).created = BadRaw
    \/ Issue(fetched[k]).updated = BadRaw

\* C19: a run whose fetched records hold one with an unparsable created or
\* updated timestamp, at whatever position, ends in failure before the first
\* lookup: it has no tickets, searches and writes nothing and leaves the
\* store as it found it. No run ever works on a ticket made from such a
\* record, and no ticket carries a defaulted timestamp.
C19_MalformedFatal ==
    /\ (\E k \in 1..Len(issues) : Unparsable(issues, k)) =>
          /\ pc = "failed" /\ failure = "malformed"
          /\ tickets = <<>>
          /\ lookups = 0 /\ writes = 0
          /\ store = start
          /\ table = <<>>
    /\ \A j \in 1..Len(tickets) :
          /\ ~dry_run => tickets[j] # "M"
          /\ TicketAt(j).created.date # "0001-01-01"
          /\ TicketAt(j).updated.date # "0001-01-01"
    /\ \A id \in 1..Len(store) : "OCPBUGS-3" \notin Range(store[id].attrs["jiraKey"])

C19_Witness ==
    /\ pc = "failed" /\ failure = "malformed"
    /\ Len(issues) = 2 /\ issues[1] = "A" /\ issues[2] = "M"
    /\ store = start /\ start # store0

\* text with the characters outside ASCII left out, the others in order
Dropped(text) == SelectSeq(text, LAMBDA c : c \notin NonAscii)

HasNonAscii(content) ==
    \E k \in 1..Len(content) :
        \E m \in 1..Len(content[k].items) :
            \E n \in 1..Len(content[k].items[m]) :
                content[k].items[m][n] \in NonAscii

\* C20: an update of content that holds characters outside ASCII completes,
\* and writes back the old content with exactly those characters dropped,
\* plus one new entry in the notes list (in a new notes list at the end
\* when the old content had none).
C20_NonAsciiTolerance ==
    (UpdateDone /\ HasNonAscii(pre[task.id].content)) =>
        LET old == pre[task.id].content
            new == store[task.id].content
            at == Find(old)
            entry == <<Now(runs).date \o " " \o Now(runs).time,
                       " Update from Jira">>
        IN  /\ Len(new) = Len(old) + (IF at = 0 THEN 1 ELSE 0)
            /\ \A k \in 1..Len(old) :
                  /\ new[k].tag = old[k].tag
                  /\ new[k].class = old[k].class
                  /\ Len(new[k].items) =
                        Len(old[k].items) + (IF k = at THEN 1 ELSE 0)
                  /\ \A m \in 1..Len(old[k].items) :
                        new[k].items[m] = Dropped(old[k].items[m])
                  /\ k = at => new[k].items[Len(new[k].items)] = entry
            /\ at = 0 => new[Len(new)] = Elem("ul", "notes-list", <<entry>>)

\* the merges this run has entered
UpdatesTaken ==
    Cardinality({j \in 1..Len(outcomes) : outcomes[j].path = "Update"})

IsMarker(entry) == Len(entry) = 2 /\ entry[2] = " Update from Jira"

MarkerCount(content) ==
    Cardinality({m \in 1..Len(Entries(content)) : IsMarker(Entries(content)[m])})

IsPrefix(a, b) == Len(a) <= Len(b) /\ SubSeq(b, 1, Len(a)) = a

\* the completed iterations of this run that updated the committed note k
UpdatesOf(k) ==
    Cardinality({j \in 1..(i - 1) :
        /\ outcomes[j].path = "Update"
        /\ Matches(store[k], KeyOf(tickets[j]))})

\* the notes list of note k when this run found it, or as the run created it
EntriesAtStart(k) ==
    IF k <= Len(start) THEN Entries(start[k].content) ELSE << <<>> >>

\* C22 as stated: an update keeps the entries of the notes list, unchanged
\* and in order, as a prefix of the new list, and a note updated n times in a
\* run has exactly n more marker entries than when the run found or made it.
C22_AppendOnly ==
    /\ UpdateDone =>
          IsPrefix(Entries(pre[task.id].content), Entries(store[task.id].content))
    /\ \A k \in 1..Len(store) :
          MarkerCount(store[k].content) =
              Cardinality({m \in 1..Len(EntriesAtStart(k)) :
                             IsMarker(EntriesAtStart(k)[m])}) + UpdatesOf(k)

\* C22 amended: the same, where each kept entry is the old entry without its
\* characters outside ASCII.
C22_AppendOnlyNormalised ==
    /\ UpdateDone =>
          /\ IsPrefix(Entries(Parse(pre[task.id].content)),
                      Entries(store[task.id].content))
          /\ MarkerCount(store[task.id].content) =
                MarkerCount(pre[task.id].content) + 1
    /\ \A k \in 1..Len(store) :
          /\ IsPrefix([m \in 1..Len(EntriesAtStart(k)) |->
                          Dropped(EntriesAtStart(k)[m])],
                      Entries(store[k].content))
             \/ UpdatesOf(k) = 0
          /\ MarkerCount(store[k].content) =
                Cardinality({m \in 1..Len(EntriesAtStart(k)) :
                               IsMarker(EntriesAtStart(k)[m])}) + UpdatesOf(k)

C22_Witness ==
    /\ UpdateDone /\ runs = 2 /\ i = 3
    /\ store0 = <<Old1>> /\ task.id = 1
    /\ UpdatesOf(1) = 2
    /\ MarkerCount(store[1].content) = MarkerCount(store0[1].content) + 4
    /\ Entries(store[1].content)[2] = <<"c", "a", "f">>

\* the notes of `old` are all in `new`, each still the same item: tracked,
\* with its title, key, parents, done date and archived flag
Kept(old, new) ==
    /\ Len(old) <= Len(new)
    /\ \A k \in 1..Len(old) :
          /\ HasTask(old[k]) => HasTask(new[k])
          /\ new[k].title = old[k].title
          /\ new[k].parents = old[k].parents
          /\ \A a \in {"jiraKey", "doneDate", "archived", "cssClass"} :
                new[k].attrs[a] = old[k].attrs[a]

\* C23: the reconciler never deletes: every note the store held before an
\* iteration, before the run and before the first run is still there, as
\* tracked as it was, under the same parents, and neither done nor archived
\* unless it was.
C23_NeverDeletes ==
    /\ Kept(pre, store)
    /\ Kept(start, store)
    /\ Kept(store0, store)

C23_Witness ==
    /\ pc = "done" /\ runs = 2 /\ Len(tickets) = 2
    /\ store0 = <<Done1, Away1, Plain1>>
    /\ Len(store) = 5
    /\ \E j \in 1..2 : outcomes[j].path = "Update"

\* C24: the task Create made for a ticket has the title "<key>: <title>",
\* the ticket's key as jiraKey, the tag jira, the date of the ticket's
\* created timestamp as todoDate, the root as a parent and today's note as a
\* parent with the prefix TODO.
C24_CreateFromTicket ==
    CreateDone =>
        LET note == store[task.id]
            t == LastTicket
        IN  /\ note.title = <<t.key, ": ">> \o t.title
            /\ note.attrs["jiraKey"] = <<t.key>>
            /\ note.attrs["tag"] = <<"jira">>
            /\ note.attrs["todoDate"] = <<t.created.date>>
            /\ [note |-> "root", prefix |-> ""] \in note.parents
            /\ [note |-> "today", prefix |-> "TODO"] \in note.parents

\* the first two tickets of the list carry the same key and no open task
\* under the root had it when the run began
DuplicateKey ==
    /\ Len(tickets) >= 2
    /\ KeyOf(tickets[1]) = KeyOf(tickets[2])
    /\ Search(start, KeyOf(tickets[1])) = <<>>

\* C26: when a key comes twice in one fetched list and no open task had it,
\* the first occurrence is created and committed before the second lookup,
\* the second occurrence finds it and updates it, and the run has made one
\* task for the key.
C26_DuplicateKey ==
    (DuplicateKey /\ pc \in {"loop", "done"} /\ i >= 3) =>
        /\ outcomes[1] = [count |-> 0, path |-> "Create"]
        /\ outcomes[2] = [count |-> 1, path |-> "Update"]
        /\ Len(store) = Len(start) + 1
        /\ Search(store, KeyOf(tickets[1])) = <<Len(store)>>

C26_Witness ==
    /\ DuplicateKey /\ pc = "done" /\ i = 3
    /\ start = <<Done1, Away1, Plain1>>
    /\ Len(store) = 4
    /\ MarkerCount(store[4].content) = 1

\* the labels the shared tail of an iteration writes
Shared == {"jiraStatus", "jiraPriority", "jiraAssignee", "jiraUpdated", "jiraLabels"}

\* C27: an update leaves the matched task's title, template, parents (the
\* root and today's note among them) and every label but the five shared
\* jira* ones as they were, so the title stays even when the ticket's title
\* is another; the content is what the merge wrote.
C27_UpdateKeepsCreationFields ==
    UpdateDone =>
        LET old == pre[task.id]
            new == store[task.id]
        IN  /\ new.title = old.title
            /\ new.template = old.template
            /\ new.parents = old.parents
            /\ \A a \in AttrNames \ Shared : new.attrs[a] = old.attrs[a]
            /\ new.content = MergeContent(variant, old.content, Now(runs))

C27_Witness ==
    /\ UpdateDone
    /\ store[task.id].title = <<"OCPBUGS-1", ": ", "o", "l", "d">>
    /\ store[task.id].title # <<LastTicket.key, ": ">> \o LastTicket.title
    /\ LastTicket.key = "OCPBUGS-1"
    /\ store[task.id].attrs["jiraStatus"] # pre[task.id].attrs["jiraStatus"]
    /\ store[task.id].attrs["todoDate"] = <<"2023-12-01">>

\* a task with the five shared labels and the relation to today's note
Built(note) ==
    /\ \A a \in Shared : note.attrs[a] # <<>>
    /\ [note |-> "today", prefix |-> "TODO"] \in note.parents

\* the committed notes that publish created and gave a jiraKey
Made == {k \in (Len(store0) + 1)..Len(store) : store[k].attrs["jiraKey"] # <<>>}

Named(error, title) ==
    \E k \in 1..Len(error) :
        /\ k + Len(title) - 1 <= Len(error)
        /\ SubSeq(error, k, k + Len(title) - 1) = title

\* a command that names a task was run for real (no --dry-run, the delete
\* confirmed) and its search matched no task of the store it found
NoSuchTask ==
    /\ pc = "tool" /\ ~tool.dry /\ tool.confirm
    /\ Titled(start, tool.title, Scope(tool.program, tool.command)) = <<>>

\* C25: update, delete/rm, done and archive of either task manager, given a
\* title that matches no task, end with an error whose message holds the
\* title, and leave the store as it was.
C25_NotFound ==
    NoSuchTask =>
        /\ tool.end \in {"error", "abort", "crash"}
        /\ Named(tool.error, tool.title)
        /\ store = start

\* the tasks of the store s that carry the key
Carriers(s, key) ==
    {k \in 1..Len(s) : HasTask(s[k]) /\ key \in Range(s[k].attrs["jiraKey"])}

\* before the iteration just completed, the tasks carrying its ticket's key
\* were all done, and there was one at least
OnlyDone ==
    /\ IterDone
    /\ Carriers(pre, LastTicket.key) # {}
    /\ \A k \in Carriers(pre, LastTicket.key) : pre[k].attrs["doneDate"] # <<>>

\* C28: when every task that carries a ticket's key is done, the
\* reconciliation of that key takes the Create case and commits one more
\* task with the key, open, and the done tasks are as they were.
C28_DoneReplaced ==
    OnlyDone =>
        /\ LastOutcome = [count |-> 0, path |-> "Create"]
        /\ Len(store) = Len(pre) + 1
        /\ store[Len(store)].attrs["jiraKey"] = <<LastTicket.key>>
        /\ store[Len(store)].attrs["doneDate"] = <<>>
        /\ \A k \in Carriers(pre, LastTicket.key) : store[k] = pre[k]

C28_Witness ==
    /\ OnlyDone /\ runs = 2
    /\ store0 = <<Old1>> /\ Len(store) = 2
    /\ store[1] = [Old1 EXCEPT !.attrs["doneDate"] = <<Now(1).date>>,
                               !.attrs["cssClass"] = <<"done">>]
    /\ store[2].attrs["jiraKey"] = <<"OCPBUGS-1">>

\* a push was run for real; the notes of the store it found that have the
\* title
PushRan == pc = "tool" /\ tool.command = "push" /\ ~tool.dry
PushFound == AnyTitled(start, tool.title)

====
